---- MODULE Spec2Model ----
(***************************************************************************)
(* Model of langflow/interface/initialize/loading.py: the graph rewrite    *)
(* replace_zero_shot_prompt_with_prompt_template / build_prompt_template,  *)
(* and instantiate_class with its category adapters.                       *)
(*                                                                         *)
(* Python values are records [k |-> kind, v |-> payload], the payload      *)
(* always a sequence of strings.  A dict of params is a function from a    *)
(* set of key strings to such values; a set is written in the order        *)
(* iterating it gives.  Calls that leave this file (the class library,     *)
(* constructors, loaders, the function compiler) are recorded in `trace`,  *)
(* and what they return or raise is chosen nondeterministically.  Every    *)
(* adapter gives the set of ways the call can end, each a                  *)
(* Result(params, trace, outcome) where params is the caller's dict as the *)
(* call leaves it.                                                         *)
(***************************************************************************)
EXTENDS Integers, Sequences, FiniteSets, TLC

VARIABLES
    nodes,        \* the node list object handed to the graph rewrite, as it stands
    hist,         \* hist[1] is the input list, hist[k+1] what run k returned
    rwRaised,     \* the last run of the rewrite raised instead of returning
    customNodes,  \* CUSTOM_NODES, the override table
    callerParams, \* the caller's params mapping, as it stands after the call
    given,        \* the caller's params mapping as it was when the call began
    op,           \* the node instantiated: [node_type, base_type]
    calls,        \* how many times instantiate_class has run on the mapping
    trace,        \* the calls made out of this file, in order
    outcome       \* how the call ended

vars == <<nodes, hist, rwRaised, customNodes, callerParams, given, op, calls, trace, outcome>>
rwVars == <<nodes, hist, rwRaised>>
instVars == <<customNodes, callerParams, given, op, calls, trace, outcome>>

\* ---------------------------------------------------------------- bounds
MaxNodes == 3
MaxRuns == 2

\* ------------------------------------------------------ sequence helpers
\* `x in s` for a Python list s
InList(x, s) == \E i \in 1..Len(s) : s[i] = x

RECURSIVE Join(_, _)
\* sep.join(strs)
Join(sep, strs) ==
    IF Len(strs) = 0 THEN ""
    ELSE IF Len(strs) = 1 THEN strs[1]
    ELSE strs[1] \o sep \o Join(sep, Tail(strs))

SeqsUpTo(S, n) == UNION {[1..k -> S] : k \in 0..n}

\* ------------------------------------------------- flow-document fragments
None == [k |-> "None"]

LegacyTemplate(fi) ==
    [prefix |-> [value |-> "PREFIX"],
     suffix |-> [value |-> "SUFFIX"],
     format_instructions |-> [value |-> fi]]

\* A format string is a sequence of pieces: literal text, or a replacement
\* field written "{name}".
GoodFormat == <<"Use one of [", "{tool_names}", "]">>
BadFormat == <<"{tool_names}", "{input}">>
IsField(piece) == piece \in {"{tool_names}", "{input}"}

FlowNode(type, dataType, name, description, base, template) ==
    [type |-> type,
     data |-> [type |-> dataType,
               node |-> [name |-> name,
                         description |-> description,
                         base_classes |-> base,
                         template |-> template]]]

PromptNode == FlowNode("genericNode", "ZeroShotPrompt", "ZeroShotPrompt",
                       "Prompt for the agent", <<"BasePromptTemplate">>,
                       LegacyTemplate(GoodFormat))
PromptToolNode == FlowNode("genericNode", "ZeroShotPrompt", "PromptAsTool",
                           "Prompt that is a tool", <<"BasePromptTemplate", "Tool">>,
                           LegacyTemplate(GoodFormat))
PromptBadFormatNode == FlowNode("genericNode", "ZeroShotPrompt", "ZeroShotPrompt",
                                "Prompt for the agent", <<"BasePromptTemplate">>,
                                LegacyTemplate(BadFormat))
SearchNode == FlowNode("genericNode", "Search", "Search", "Searches the web",
                       <<"Tool", "BaseTool">>, [query |-> [value |-> "q"]])
CalculatorNode == FlowNode("genericNode", "Calculator", "Calculator", "Does sums",
                           <<"BaseTool", "Tool">>, [query |-> [value |-> "q"]])
ChatOutputNode == FlowNode("chatOutputNode", "ChatOutput", "ChatOutput", "Shows the answer",
                           <<"Tool">>, [query |-> [value |-> "q"]])
LLMNode == FlowNode("genericNode", "OpenAI", "OpenAI", "A language model",
                    <<"BaseLLM">>, [query |-> [value |-> "q"]])

NodeShapes == {PromptNode, PromptToolNode, PromptBadFormatNode, SearchNode,
               CalculatorNode, ChatOutputNode, LLMNode}

\* ------------------------------------------------------- build_prompt_template
\* str.format(tool_names=...): every replacement field must be tool_names
FormatRaises(fi) == \E i \in 1..Len(fi) : IsField(fi[i]) /\ fi[i] # "{tool_names}"

Format(fi, tool_names) ==
    Join("", [i \in 1..Len(fi) |-> IF fi[i] = "{tool_names}" THEN tool_names ELSE fi[i]])

PromptTemplateSchema(value) ==
    [template |->
        [_type |-> "prompt",
         input_variables |-> [type |-> "str", required |-> TRUE, placeholder |-> "",
                              list |-> TRUE, show |-> FALSE, multiline |-> FALSE],
         output_parser |-> [type |-> "BaseOutputParser", required |-> FALSE,
                            placeholder |-> "", list |-> FALSE, show |-> FALSE,
                            multline |-> FALSE, value |-> None],
         template |-> [type |-> "str", required |-> TRUE, placeholder |-> "",
                       list |-> FALSE, show |-> TRUE, multiline |-> TRUE,
                       value |-> value],
         template_format |-> [type |-> "str", required |-> FALSE, placeholder |-> "",
                              list |-> FALSE, show |-> FALSE, multline |-> FALSE,
                              value |-> "f-string"],
         validate_template |-> [type |-> "bool", required |-> FALSE, placeholder |-> "",
                                list |-> FALSE, show |-> FALSE, multline |-> FALSE,
                                value |-> TRUE]],
     description |-> "Schema to represent a prompt for an LLM.",
     base_classes |-> <<"BasePromptTemplate">>]

ToolStrings(tools) ==
    Join("\n", [i \in 1..Len(tools) |->
                  tools[i].data.node.name \o ": " \o tools[i].data.node.description])

ToolNames(tools) == Join(", ", [i \in 1..Len(tools) |-> tools[i].data.node.name])

TemplateValue(prompt, tools) ==
    Join("\n\n", <<prompt.node.template.prefix.value,
                   ToolStrings(tools),
                   Format(prompt.node.template.format_instructions.value, ToolNames(tools)),
                   prompt.node.template.suffix.value>>)

\* the lookups and the format call that can raise before anything is assigned
BuildRaises(prompt) ==
    \/ {"prefix", "suffix", "format_instructions"} \ DOMAIN prompt.node.template # {}
    \/ FormatRaises(prompt.node.template.format_instructions.value)

\* variant: line 266 left out, the type stays "ZeroShotPrompt"
build_prompt_template_keeps_type(prompt, tools) ==
    [prompt EXCEPT !.node = PromptTemplateSchema(TemplateValue(prompt, tools))]

build_prompt_template(prompt, tools) ==
    [prompt EXCEPT !.type = "PromptTemplate",
                   !.node = PromptTemplateSchema(TemplateValue(prompt, tools))]

\* ------------------------- replace_zero_shot_prompt_with_prompt_template
\* index of the node the loop stops at, 0 when it runs to the end
FirstZeroShot(ns) ==
    IF \E i \in 1..Len(ns) : ns[i].data.type = "ZeroShotPrompt"
    THEN CHOOSE i \in 1..Len(ns) :
            /\ ns[i].data.type = "ZeroShotPrompt"
            /\ \A j \in 1..(i - 1) : ns[j].data.type # "ZeroShotPrompt"
    ELSE 0

IsToolNode(tool) ==
    /\ tool.type # "chatOutputNode"
    /\ InList("Tool", tool.data.node.base_classes)

ToolsOf(ns) == SelectSeq(ns, IsToolNode)

RewriteRaises(ns) ==
    /\ FirstZeroShot(ns) # 0
    /\ BuildRaises(ns[FirstZeroShot(ns)].data)

\* variant: the loop without the break of line 220
replace_every_zero_shot_prompt(ns) ==
    [i \in 1..Len(ns) |->
        IF ns[i].data.type = "ZeroShotPrompt" /\ ~BuildRaises(ns[i].data)
        THEN [ns[i] EXCEPT !.data = build_prompt_template(ns[i].data, ToolsOf(ns))]
        ELSE ns[i]]

replace_zero_shot_prompt_with_prompt_template(ns) ==
    IF FirstZeroShot(ns) = 0 THEN ns
    ELSE [ns EXCEPT ![FirstZeroShot(ns)].data =
              build_prompt_template(ns[FirstZeroShot(ns)].data, ToolsOf(ns))]

\* One invocation on the list as it stands: the first on the input, a later
\* one on what the previous invocation returned.
Rewrite ==
    /\ ~rwRaised
    /\ Len(hist) <= MaxRuns
    /\ IF RewriteRaises(nodes)
       THEN /\ rwRaised' = TRUE
            /\ UNCHANGED <<nodes, hist>>
       ELSE /\ nodes' = replace_zero_shot_prompt_with_prompt_template(nodes)
            /\ hist' = Append(hist, nodes')
            /\ rwRaised' = FALSE
    /\ UNCHANGED instVars

\* ------------------------------------------------------------ Python values
V(k, v) == [k |-> k, v |-> v]
Str(text) == V("str", <<text>>)
NoneV == V("None", <<>>)
Obj(what) == V("obj", <<what>>)

\* bool(value)
Truthy(val) ==
    CASE val.k = "None" -> FALSE
      [] val.k = "str" -> val.v # <<"">>
      [] val.k \in {"dict", "list", "set", "tuple"} -> val.v # <<>>
      [] OTHER -> TRUE

\* dict operations; a dict is a function from its keys
Pop(d, key) == [x \in DOMAIN d \ {key} |-> d[x]]
Put(d, key, val) == [x \in DOMAIN d \cup {key} |-> IF x = key THEN val ELSE d[x]]
Restrict(d, keys) == [x \in DOMAIN d \cap keys |-> d[x]]
Dicts(keys, Val(_)) ==
    UNION {{d \in [ks -> UNION {Val(x) : x \in ks}] : \A x \in ks : d[x] \in Val(x)}
           : ks \in SUBSET keys}

RECURSIVE Dedup(_)
\* the elements of a sequence, each once, in order of first occurrence
Dedup(s) ==
    IF Len(s) = 0 THEN <<>>
    ELSE LET front == Dedup(SubSeq(s, 1, Len(s) - 1))
         IN  IF InList(s[Len(s)], front) THEN front ELSE Append(front, s[Len(s)])

\* json.loads on the texts the inputs use
JsonSourceX == "{\"source\": \"x\"}"
JsonEmpty == "{}"
JsonK3 == "{\"k\": 3}"
NotJson == "not json"
JsonValid(text) == text \in {JsonSourceX, JsonEmpty, JsonK3}
JsonLoads(text) ==
    CASE text = JsonSourceX -> V("dict", <<"source=x">>)
      [] text = JsonEmpty -> V("dict", <<>>)
      [] text = JsonK3 -> V("dict", <<"k=3">>)

\* ------------------------------------------------------ results of a call
Ev(ev, target, kwargs, arg) == [ev |-> ev, target |-> target, kwargs |-> kwargs, arg |-> arg]

Result(params, tr, out) == [params |-> params, trace |-> tr, outcome |-> out]
Returned(val, docs) == [kind |-> "return", error |-> "", value |-> val, docs |-> docs]
Raised(error) == [kind |-> "raise", error |-> error, value |-> NoneV, docs |-> <<>>]

\* what a call out of this file can do: give back `val`, or raise one of `errors`
Outcomes(params, tr, val, errors) ==
    {Result(params, tr, Returned(val, <<>>))}
        \cup {Result(params, tr, Raised(e)) : e \in errors}

\* class_object(**params) as the last statement of an adapter
Construct(cls, params, tr) ==
    Outcomes(params, Append(tr, Ev("construct", cls, params, NoneV)),
             Obj(cls), {"ValidationError"})

\* ------------------------------------------------------- convert_params_to_sets
ToSet(val) == IF val.k = "set" THEN val ELSE V("set", Dedup(val.v))

convert_params_to_sets(params) ==
    [x \in DOMAIN params |->
        IF x \in {"allowed_special", "disallowed_special"} THEN ToSet(params[x])
        ELSE params[x]]

\* --------------------------------------------------------------- convert_kwargs
\* `"kwargs" in key`, for the keys the inputs use
HasKwargs(key) == key \in {"model_kwargs", "search_kwargs"}

KwargsStrKeys(params) == {x \in DOMAIN params : HasKwargs(x) /\ params[x].k = "str"}

ConvertKwargsRaises(params) ==
    \E x \in KwargsStrKeys(params) : ~JsonValid(params[x].v[1])

DecodeKeys(params, keys) ==
    [x \in DOMAIN params |-> IF x \in keys THEN JsonLoads(params[x].v[1]) ELSE params[x]]

convert_kwargs(params) == DecodeKeys(params, KwargsStrKeys(params))

\* the dict as the loop leaves it when json.loads raises: the keys that came
\* before the failing one are decoded, and the dict's order decides which
ConvertKwargsPartial(params) ==
    {DecodeKeys(params, done) :
        done \in SUBSET {x \in KwargsStrKeys(params) : JsonValid(params[x].v[1])}}

EmptyDict == [x \in {} |-> NoneV]

\* ---------------------------------------------------------- load_agent_executor
\* tool.name of the tool instances the inputs use; t1 and t3 share a name
ToolName(tool) ==
    CASE tool = "t1" -> "Search"
      [] tool = "t2" -> "Calculator"
      [] tool = "t3" -> "Search"

\* the isinstance test of lines 229-231
WrapSingleTool(allowed_tools) ==
    IF allowed_tools.k \notin {"list", "set"} /\ allowed_tools.k = "tool"
    THEN V("list", allowed_tools.v)
    ELSE allowed_tools

\* variant: the names taken in the opposite order
NamesOfReversed(allowed_tools) ==
    V("list", [i \in 1..Len(allowed_tools.v) |->
                  ToolName(allowed_tools.v[Len(allowed_tools.v) + 1 - i])])

\* [tool.name for tool in allowed_tools]
NamesOf(allowed_tools) ==
    V("list", [i \in 1..Len(allowed_tools.v) |-> ToolName(allowed_tools.v[i])])

load_agent_executor(agent_class, params, tr) ==
    IF "llm_chain" \notin DOMAIN params
    THEN {Result(params, tr, Raised("KeyError"))}
    ELSE LET allowed_tools ==
                 WrapSingleTool(IF "allowed_tools" \in DOMAIN params
                                THEN params["allowed_tools"] ELSE V("list", <<>>))
         IN  IF allowed_tools.k \notin {"list", "set", "tuple"}
             THEN {Result(params, tr, Raised("TypeError"))}
             ELSE LET tr1 == Append(tr, Ev("construct", agent_class,
                                           [allowed_tools |-> NamesOf(allowed_tools),
                                            llm_chain |-> params["llm_chain"]], NoneV))
                      tr2 == Append(tr1, Ev("from_agent_and_tools", "AgentExecutor",
                                            [agent |-> Obj(agent_class),
                                             tools |-> allowed_tools], NoneV))
                  IN  {Result(params, tr1, Raised("ValidationError"))}
                          \cup Outcomes(params, tr2, Obj("AgentExecutor"),
                                        {"ValidationError"})

instantiate_agent(class_object, params, tr) ==
    load_agent_executor(class_object, params, tr)

\* ------------------------------------------------------------ instantiate_prompt
instantiate_prompt(node_type, class_object, params, tr) ==
    IF node_type = "ZeroShotPrompt"
    THEN LET p == IF "tools" \notin DOMAIN params
                  THEN Put(params, "tools", V("list", <<>>)) ELSE params
         IN  Outcomes(p, Append(tr, Ev("create_prompt", "ZeroShotAgent", p, NoneV)),
                      Obj("PromptTemplate"), {"ValidationError"})
    ELSE Construct(class_object, params, tr)

\* -------------------------------------------------------------- instantiate_tool
\* node_type.lower(), for the tool types the inputs use
Lower(node_type) ==
    CASE node_type = "Tool" -> "tool"
      [] node_type = "Calculator" -> "calculator"
      [] OTHER -> node_type

\* params after line 108: func is set and code, read with get, stays
PythonFunctionToolParams(params, func) == Put(params, "func", func)

\* variant: path read with get instead of pop
JsonSpecParamsKeepPath(params, loaded) == Put(params, "dict_", loaded)

\* params after line 105: path is popped and dict_ is set
JsonSpecParams(params, loaded) == Put(Pop(params, "path"), "dict_", loaded)

instantiate_tool(node_type, class_object, params, tr) ==
    IF node_type = "JsonSpec" THEN
        IF "path" \notin DOMAIN params
        THEN {Result(params, tr, Raised("KeyError"))}
        ELSE LET tr1 == Append(tr, Ev("load_file_into_dict", "", EmptyDict, params["path"]))
                 loaded == V("dict", <<"contents of">> \o params["path"].v)
             IN  {Result(Pop(params, "path"), tr1, Raised("FileNotFoundError"))}
                     \cup Construct(class_object, JsonSpecParams(params, loaded), tr1)
    ELSE IF node_type = "PythonFunctionTool" THEN
        LET code == IF "code" \in DOMAIN params THEN params["code"] ELSE NoneV
            tr1 == Append(tr, Ev("get_function", "", EmptyDict, code))
            func == V("callable", <<"get_function">> \o code.v)
        IN  {Result(params, tr1, Raised("SyntaxError"))}
                \cup Construct(class_object, PythonFunctionToolParams(params, func), tr1)
    ELSE IF node_type = "PythonFunction" THEN
        IF "code" \notin DOMAIN params
        THEN {Result(params, tr, Raised("KeyError"))}
        ELSE IF params["code"].k = "str"
             THEN Outcomes(params,
                           Append(tr, Ev("eval_function", "", EmptyDict, params["code"])),
                           V("callable", <<"eval_function">> \o params["code"].v),
                           {"SyntaxError"})
             ELSE {Result(params, tr, Raised("ValueError: Function should be a string"))}
    ELSE IF Lower(node_type) = "tool" THEN Construct(class_object, params, tr)
    ELSE Construct(class_object, params, tr)

\* ----------------------------------------------------------- instantiate_toolkit
\* isinstance(loaded_toolkit, BaseToolkit), by class
IsBaseToolkit(class_object) == class_object = "JsonToolkit"

instantiate_toolkit(node_type, class_object, params, tr) ==
    LET tr1 == Append(tr, Ev("construct", class_object, params, NoneV))
    IN  {Result(params, tr1, Raised("ValidationError"))}
            \cup IF IsBaseToolkit(class_object)
                 THEN {Result(params, Append(tr1, Ev("get_tools", class_object, EmptyDict, NoneV)),
                              Returned(V("list", <<"t1", "t2">>), <<>>))}
                 ELSE {Result(params, tr1, Returned(Obj(class_object), <<>>))}

\* --------------------------------------------------------- instantiate_embedding
\* class_object.__fields__ of the embedding classes the inputs use
ClassFields(class_object) ==
    CASE class_object = "OpenAIEmbeddings" -> {"model", "openai_api_key", "chunk_size"}
      [] class_object = "CohereEmbeddings" -> {"model", "cohere_api_key"}
      [] OTHER -> {}

\* lines 132-133
DropModelAndHeaders(params) == Pop(Pop(params, "model"), "headers")

\* the dict comprehension of lines 137-141
FieldParams(class_object, params) == Restrict(params, ClassFields(class_object))

\* variant: a bare except, retrying whatever the first attempt raised
RetryEmbeddingOnAnyError(class_object, params, tr, error) ==
    LET tr2 == Append(tr, Ev("construct", class_object,
                             FieldParams(class_object, params), NoneV))
    IN  Outcomes(params, tr2, Obj(class_object), {"ValidationError", "TypeError"})

\* what the try statement does with the error the first attempt raised; the
\* error is kept in the trace as a "raised" entry
RetryEmbedding(class_object, params, tr, error) ==
    IF error = "ValidationError"
    THEN LET tr2 == Append(tr, Ev("construct", class_object,
                                  FieldParams(class_object, params), NoneV))
         IN  Outcomes(params, tr2, Obj(class_object), {"ValidationError", "TypeError"})
    ELSE {Result(params, tr, Raised(error))}

instantiate_embedding(class_object, params, tr) ==
    LET p == DropModelAndHeaders(params)
        tr1 == Append(tr, Ev("construct", class_object, p, NoneV))
    IN  {Result(p, tr1, Returned(Obj(class_object), <<>>))}
            \cup UNION {RetryEmbedding(class_object, p,
                                       Append(tr1, Ev("raised", class_object, EmptyDict, Str(e))),
                                       e)
                        : e \in {"ValidationError", "TypeError"}}

\* ------------------------------------------------------- instantiate_vectorstore
\* vecstore_initializer.get(class_object.__name__) finds an initializer
HasInitializer(class_object) == class_object = "Chroma"

\* hasattr(vecstore, "as_retriever"), by the class that built the store
StoreHasAsRetriever(class_object) == class_object # "DocArrayIndex"

instantiate_vectorstore(class_object, params, tr) ==
    LET search_kwargs == IF "search_kwargs" \in DOMAIN params
                         THEN params["search_kwargs"] ELSE V("dict", <<>>)
        p1 == Pop(params, "search_kwargs")
        p2 == IF HasInitializer(class_object) \/ "texts" \notin DOMAIN p1 THEN p1
              ELSE Put(Pop(p1, "texts"), "documents", p1["texts"])
        tr1 == Append(tr, Ev(IF HasInitializer(class_object)
                             THEN "initializer" ELSE "from_documents",
                             class_object, p2, NoneV))
    IN  {Result(p2, tr1, Raised("ValidationError"))}
            \cup IF Truthy(search_kwargs) /\ StoreHasAsRetriever(class_object)
                 THEN {Result(p2, Append(tr1, Ev("as_retriever", class_object,
                                                 [search_kwargs |-> search_kwargs], NoneV)),
                              Returned(Obj("retriever"), <<>>))}
                 ELSE {Result(p2, tr1, Returned(Obj(class_object), <<>>))}

\* ---------------------------------------------------- instantiate_documentloader
\* file_filter.split(","), stripped, for the filter texts the inputs use
Extensions(text) ==
    CASE text = "txt,csv" -> <<"txt", "csv">>
      [] text = "txt, md" -> <<"txt", "md">>
      [] OTHER -> <<text>>

Document(content, metadata) == [page_content |-> content, metadata |-> metadata]

\* what class_object(**params).load() can give back
MaxDocs == 2
LoaderMetadata == {V("dict", <<"source=a.txt">>), V("dict", <<>>)}
LoadedDocs ==
    UNION {{[i \in 1..n |-> Document("doc", md[i])] : md \in [1..n -> LoaderMetadata]}
           : n \in 0..MaxDocs}

\* the test of line 175
MetadataGiven(metadata) == Truthy(metadata)

\* variant: only the first document is assigned the metadata
AssignMetadataToFirst(docs, metadata) ==
    [i \in 1..Len(docs) |-> IF i = 1 THEN [docs[i] EXCEPT !.metadata = metadata]
                            ELSE docs[i]]

\* lines 184-185
AssignMetadata(docs, metadata) ==
    [i \in 1..Len(docs) |-> [docs[i] EXCEPT !.metadata = metadata]]

instantiate_documentloader(class_object, params, tr) ==
    LET p1 == IF "file_filter" \in DOMAIN params
              THEN Put(params, "file_filter",
                       V("callable", <<"any in">> \o Extensions(params["file_filter"].v[1])))
              ELSE params
        metadata == IF "metadata" \in DOMAIN p1 THEN p1["metadata"] ELSE NoneV
        p2 == Pop(p1, "metadata")
        tr1 == Append(tr, Ev("construct", class_object, p2, NoneV))
    IN  {Result(p2, tr1, Raised("ValidationError"))}
        \cup UNION {
            LET tr2 == Append(tr1, [ev |-> "load", target |-> class_object,
                                    kwargs |-> EmptyDict, arg |-> NoneV, docs |-> docs])
            IN  IF MetadataGiven(metadata)
                THEN IF metadata.k = "str" /\ ~JsonValid(metadata.v[1])
                     THEN {Result(p2, tr2, Raised("ValueError: not a valid JSON string"))}
                     ELSE {Result(p2, tr2,
                                  Returned(V("list", <<>>),
                                           AssignMetadata(docs,
                                               IF metadata.k = "str"
                                               THEN JsonLoads(metadata.v[1])
                                               ELSE metadata)))}
                ELSE {Result(p2, tr2, Returned(V("list", <<>>), docs))}
            : docs \in LoadedDocs}

\* ------------------------------------------------------ instantiate_textsplitter
MissingDocuments == "ValueError: The source you provided did not load correctly or was empty."

\* variant: an empty `documents` treated as a missing one
DocumentsMissingOrEmpty(params) ==
    "documents" \notin DOMAIN params \/ ~Truthy(params["documents"])

\* the try/except of lines 191-197
DocumentsMissing(params) == "documents" \notin DOMAIN params

instantiate_textsplitter(class_object, params, tr) ==
    IF DocumentsMissing(params)
    THEN {Result(params, tr, Raised(MissingDocuments))}
    ELSE LET p == Pop(params, "documents")
             tr1 == Append(tr, Ev("construct", class_object, p, NoneV))
             tr2 == Append(tr1, Ev("split_documents", class_object, EmptyDict,
                                   params["documents"]))
         IN  {Result(p, tr1, Raised("ValidationError"))}
                 \cup Outcomes(p, tr2, V("list", <<"chunks of">> \o params["documents"].v),
                               {"ValueError"})

\* ----------------------------------------------------------- instantiate_utility
instantiate_utility(node_type, class_object, params, tr) ==
    IF node_type = "SQLDatabase"
    THEN IF "uri" \notin DOMAIN params
         THEN {Result(params, tr, Raised("KeyError"))}
         ELSE Outcomes(Pop(params, "uri"),
                       Append(tr, Ev("from_uri", class_object, EmptyDict, params["uri"])),
                       Obj(class_object), {"ArgumentError"})
    ELSE Construct(class_object, params, tr)

\* ------------------------------------------------------------ instantiate_chains
\* hasattr(value, "as_retriever")
HasAsRetriever(val) == val = Obj("vectorstore")

\* chain_creator.from_method_nodes
FromMethodNodes == [ConversationalRetrievalChain |-> "from_llm", RetrievalQA |-> "from_chain_type"]

\* getattr(class_object, method, None) finds the method
ClassHasMethod(class_object, method) ==
    class_object = "ConversationalRetrievalChain" /\ method = "from_llm"

instantiate_chains(node_type, class_object, params, tr) ==
    LET convert == "retriever" \in DOMAIN params /\ HasAsRetriever(params["retriever"])
        p == IF convert THEN Put(params, "retriever", Obj("retriever")) ELSE params
        tr1 == IF convert
               THEN Append(tr, Ev("as_retriever", "vectorstore", EmptyDict, NoneV))
               ELSE tr
    IN  IF node_type \in DOMAIN FromMethodNodes
        THEN IF ClassHasMethod(class_object, FromMethodNodes[node_type])
             THEN Outcomes(p, Append(tr1, Ev(FromMethodNodes[node_type], class_object, p, NoneV)),
                           Obj(class_object), {"ValidationError"})
             ELSE {Result(p, tr1, Raised("ValueError: Method not found"))}
        ELSE Construct(class_object, p, tr1)

\* ----------------------------------------------------- instantiate_based_on_type
instantiate_based_on_type(class_object, base_type, node_type, params, tr) ==
    CASE base_type = "agents" -> instantiate_agent(class_object, params, tr)
      [] base_type = "prompts" -> instantiate_prompt(node_type, class_object, params, tr)
      [] base_type = "tools" -> instantiate_tool(node_type, class_object, params, tr)
      [] base_type = "toolkits" -> instantiate_toolkit(node_type, class_object, params, tr)
      [] base_type = "embeddings" -> instantiate_embedding(class_object, params, tr)
      [] base_type = "vectorstores" -> instantiate_vectorstore(class_object, params, tr)
      [] base_type = "documentloaders" -> instantiate_documentloader(class_object, params, tr)
      [] base_type = "textsplitters" -> instantiate_textsplitter(class_object, params, tr)
      [] base_type = "utilities" -> instantiate_utility(node_type, class_object, params, tr)
      [] base_type = "chains" -> instantiate_chains(node_type, class_object, params, tr)
      [] OTHER -> Construct(class_object, params, tr)

\* ------------------------------------------------------------- instantiate_class
\* An entry of the override table is a constructible type or a factory with
\* an `initialize` capability: what bool(entry) and hasattr(entry,
\* "initialize") give for it.
EntryKinds == {[truthy |-> TRUE, initialize |-> TRUE],
               [truthy |-> TRUE, initialize |-> FALSE]}

\* the class library is always asked
UseOverrideNever(node_type) == FALSE

\* the tests of lines 25-26
UseOverride(node_type) ==
    /\ node_type \in DOMAIN customNodes
    /\ customNodes[node_type].truthy

FromOverride(node_type, params) ==
    IF customNodes[node_type].initialize
    THEN Outcomes(params, <<Ev("initialize", node_type, params, NoneV)>>,
                  Obj(node_type), {"ValidationError"})
    ELSE Outcomes(params, <<Ev("construct_override", node_type, params, NoneV)>>,
                  Obj(node_type), {"ValidationError"})

FromLibrary(node_type, base_type, params) ==
    LET tr == <<Ev("import_by_type", node_type, EmptyDict, Str(base_type))>>
    IN  {Result(params, tr, Raised("ImportError"))}
            \cup instantiate_based_on_type(node_type, base_type, node_type, params, tr)

\* what the normalisers leave of the caller's dict: the dict itself, changed in place
Normalized(params) == convert_kwargs(convert_params_to_sets(params))

instantiate_class(node_type, base_type, params) ==
    IF ConvertKwargsRaises(convert_params_to_sets(params))
    THEN {Result(p, <<>>, Raised("JSONDecodeError"))
          : p \in ConvertKwargsPartial(convert_params_to_sets(params))}
    ELSE IF UseOverride(node_type)
         THEN FromOverride(node_type, Normalized(params))
         ELSE FromLibrary(node_type, base_type, Normalized(params))

\* ------------------------------------------------------------------ inputs
MaxTools == 2
MaxCalls == 2

Tools == {"t1", "t2", "t3"}
ToolLists == SeqsUpTo(Tools, MaxTools)
\* a set of tools, written in the order iterating it gives
ToolSets == {l \in ToolLists : \A i, j \in 1..Len(l) : i # j => l[i] # l[j]}

AllowedToolsValues ==
    {V("tool", <<t>>) : t \in Tools}
        \cup {V("list", l) : l \in ToolLists}
        \cup {V("set", l) : l \in ToolSets}
        \cup {V("tuple", <<"t2", "t1">>), NoneV}

KwargsValues == {Str(JsonK3), Str(NotJson), V("dict", <<"k=3">>)}

MetadataValues == {Str(JsonSourceX), Str(JsonEmpty), Str(""), Str(NotJson),
                   V("dict", <<"source=x">>), V("dict", <<>>)}

BaseTypes == {"agents", "prompts", "tools", "toolkits", "embeddings", "vectorstores",
              "documentloaders", "textsplitters", "utilities", "chains", "llms"}

\* the classes import_by_type can find, by category
NodeTypes(base_type) ==
    CASE base_type = "agents" -> {"ZeroShotAgent"}
      [] base_type = "prompts" -> {"ZeroShotPrompt", "PromptTemplate"}
      [] base_type = "tools" -> {"JsonSpec", "PythonFunctionTool", "PythonFunction",
                                 "Tool", "Calculator"}
      [] base_type = "toolkits" -> {"JsonToolkit", "SQLDatabaseChain"}
      [] base_type = "embeddings" -> {"OpenAIEmbeddings", "CohereEmbeddings"}
      [] base_type = "vectorstores" -> {"Chroma", "FAISS", "DocArrayIndex"}
      [] base_type = "documentloaders" -> {"DirectoryLoader"}
      [] base_type = "textsplitters" -> {"CharacterTextSplitter"}
      [] base_type = "utilities" -> {"SQLDatabase", "SerpAPIWrapper"}
      [] base_type = "chains" -> {"ConversationalRetrievalChain", "RetrievalQA", "LLMChain"}
      [] OTHER -> {"OpenAI"}

ParamKeys(base_type) ==
    CASE base_type = "agents" -> {"allowed_tools", "llm_chain"}
      [] base_type = "prompts" -> {"tools", "prefix"}
      [] base_type = "tools" -> {"path", "code", "name"}
      [] base_type = "toolkits" -> {"spec"}
      [] base_type = "embeddings" -> {"model", "headers", "openai_api_key", "user_agent",
                                      "model_kwargs"}
      [] base_type = "vectorstores" -> {"search_kwargs", "texts", "embedding"}
      [] base_type = "documentloaders" -> {"file_filter", "metadata", "path"}
      [] base_type = "textsplitters" -> {"documents", "chunk_size"}
      [] base_type = "utilities" -> {"uri", "api_key"}
      [] base_type = "chains" -> {"retriever", "llm"}
      [] OTHER -> {"allowed_special", "disallowed_special", "model_kwargs", "temperature"}

ParamValues(key) ==
    CASE key = "allowed_tools" -> AllowedToolsValues
      [] key = "llm_chain" -> {Obj("LLMChain")}
      [] key = "tools" -> {V("list", <<"t1">>)}
      [] key = "code" -> {Str("def f(x): return x"), V("dict", <<"k=3">>)}
      [] key = "model_kwargs" -> KwargsValues
      [] key = "search_kwargs" -> KwargsValues \cup {Str(JsonEmpty), V("dict", <<>>)}
      [] key = "texts" -> {V("list", <<"d1", "d2">>)}
      [] key = "embedding" -> {Obj("OpenAIEmbeddings")}
      [] key = "file_filter" -> {Str("txt,csv")}
      [] key = "metadata" -> MetadataValues
      [] key = "documents" -> {V("list", <<"d1", "d2">>), V("list", <<>>)}
      [] key = "retriever" -> {Obj("vectorstore"), Obj("retriever")}
      [] key = "llm" -> {Obj("OpenAI")}
      [] key = "allowed_special" -> {V("list", <<"a", "b", "a">>), V("set", <<"a", "b">>)}
      [] key = "disallowed_special" -> {V("list", <<"c">>)}
      [] OTHER -> {Str(key)}

CustomNames == {"JsonAgent"}
OverrideTables == UNION {[names -> EntryKinds] : names \in SUBSET CustomNames}

\* --------------------------------------------------------------- specification
NoCall == [kind |-> "none", error |-> "", value |-> NoneV, docs |-> <<>>]

InitRewrite ==
    /\ nodes \in SeqsUpTo(NodeShapes, MaxNodes)
    /\ hist = <<nodes>>
    /\ rwRaised = FALSE
    /\ customNodes = EmptyDict
    /\ callerParams = EmptyDict
    /\ given = EmptyDict
    /\ op = [node_type |-> "", base_type |-> ""]
    /\ calls = 0
    /\ trace = <<>>
    /\ outcome = NoCall

NextRewrite == Rewrite

SpecRewrite == InitRewrite /\ [][NextRewrite]_vars

\* The caller holds one params mapping and hands it to instantiate_class; a
\* later call (a sibling node, or the same node built again) is handed the
\* same mapping as the earlier call left it.
Init ==
    /\ nodes = <<>>
    /\ hist = <<nodes>>
    /\ rwRaised = FALSE
    /\ customNodes \in OverrideTables
    /\ \E base_type \in BaseTypes :
          /\ op \in [node_type : NodeTypes(base_type) \cup CustomNames,
                     base_type : {base_type}]
          /\ callerParams \in Dicts(ParamKeys(base_type), ParamValues)
    /\ given = callerParams
    /\ calls = 0
    /\ trace = <<>>
    /\ outcome = NoCall

InstantiateClass ==
    /\ calls < MaxCalls
    /\ \E res \in instantiate_class(op.node_type, op.base_type, callerParams) :
          /\ given' = callerParams
          /\ callerParams' = res.params
          /\ trace' = res.trace
          /\ outcome' = res.outcome
    /\ calls' = calls + 1
    /\ UNCHANGED <<customNodes, op, rwVars>>

Next == InstantiateClass

Spec == Init /\ [][Next]_vars

\* =========================================================================
\* Claims on the graph rewrite (checked under SpecRewrite)
\* =========================================================================
IsLegacy(n) == n.data.type = "ZeroShotPrompt"
LegacyCount(ns) == Cardinality({i \in 1..Len(ns) : IsLegacy(ns[i])})
Changed(before, after) == {i \in 1..Len(before) : after[i] # before[i]}
RemoveAt(s, m) == [i \in 1..(Len(s) - 1) |-> IF i < m THEN s[i] ELSE s[i + 1]]

\* C1: an invocation rewrites at most one node, the first one whose data.type
\* is "ZeroShotPrompt"; every other node, and the length and order of the
\* list, stay as they were; with no such node the list comes back unchanged.
C1_AtMostOneRewrite ==
    \A r \in 1..(Len(hist) - 1) :
        /\ Len(hist[r + 1]) = Len(hist[r])
        /\ Cardinality(Changed(hist[r], hist[r + 1])) <= 1
        /\ \A i \in Changed(hist[r], hist[r + 1]) :
              /\ IsLegacy(hist[r][i])
              /\ \A j \in 1..(i - 1) : ~IsLegacy(hist[r][j])
        /\ \A i \in 1..Len(hist[r]) :
              (IsLegacy(hist[r][i]) /\ \A j \in 1..(i - 1) : ~IsLegacy(hist[r][j]))
                  => hist[r + 1][i].data.type = "PromptTemplate"
        /\ (LegacyCount(hist[r]) = 0 => hist[r + 1] = hist[r])

\* an invocation returned on a list with several legacy nodes, the second
\* of them also tool-capable, and changed one node only
C1_Witness ==
    /\ Len(hist) >= 2
    /\ LegacyCount(hist[1]) >= 2
    /\ Cardinality(Changed(hist[1], hist[2])) = 1
    /\ LegacyCount(hist[2]) = LegacyCount(hist[1]) - 1

\* C2 as stated: for any input, running the rewrite on its own output
\* returns a list equal to that output.
C2_Idempotent_AnyInput ==
    Len(hist) >= 3 => hist[3] = hist[2]

\* C2 (amended): for an input with at most one "ZeroShotPrompt" node, every
\* run of the rewrite on its own output returns, and returns a list equal to
\* that output.
C2_Idempotent_OneLegacy ==
    LegacyCount(hist[1]) <= 1 =>
        /\ \A r \in 2..(Len(hist) - 1) : hist[r + 1] = hist[r]
        /\ (Len(hist) >= 2 => ~rwRaised)

\* the first run rewrote the one legacy node and a second run has returned
C2_Witness ==
    /\ Len(hist) >= 3
    /\ LegacyCount(hist[1]) = 1
    /\ hist[2] # hist[1]
    /\ hist[3] = hist[2]

\* C8: the template of the rewritten node is synthesized from the nodes other
\* than the matched one that are not the chat-output node and have "Tool"
\* among their base_classes, in list order; the matched node contributes no
\* line of its own.
C8_ToolsAreTheRemainingNodes ==
    \A r \in 1..(Len(hist) - 1) :
        \A m \in Changed(hist[r], hist[r + 1]) :
            hist[r + 1][m].data.node.template.template.value =
                TemplateValue(hist[r][m].data,
                              SelectSeq(RemoveAt(hist[r], m), IsToolNode))

\* =========================================================================
\* Claims on instantiate_class and the adapters (checked under Spec)
\* =========================================================================
Called == calls >= 1
EventsOf(ev) == {i \in 1..Len(trace) : trace[i].ev = ev}
InTable == op.node_type \in DOMAIN customNodes

\* the call got past the class library lookup and into the adapter of `base_type`
InAdapter(base_type) ==
    /\ Called
    /\ op.base_type = base_type
    /\ Len(trace) >= 1
    /\ trace[1].ev = "import_by_type"
    /\ ~(Len(trace) = 1 /\ outcome.error = "ImportError")

\* C3: whenever node_type is a key of CUSTOM_NODES, import_by_type is never
\* called and a result comes from the override entry: from its initialize
\* factory if it has one, otherwise from constructing it.  import_by_type is
\* called only when node_type is absent from the table.
C3_OverrideBeforeLibrary ==
    Called =>
        /\ InTable =>
              /\ EventsOf("import_by_type") = {}
              /\ (outcome.kind = "return" =>
                     /\ Len(trace) = 1
                     /\ trace[1].target = op.node_type
                     /\ trace[1].ev = IF customNodes[op.node_type].initialize
                                      THEN "initialize" ELSE "construct_override")
        /\ (EventsOf("import_by_type") # {} => ~InTable)

\* a call answered by an override entry's initialize factory
C3_Witness ==
    /\ Called
    /\ InTable
    /\ customNodes[op.node_type].initialize
    /\ outcome.kind = "return"
    /\ EventsOf("initialize") = {1}
    /\ DOMAIN given # {}

\* C4: after a call of instantiate_class the caller's params mapping has the
\* keys and values it had before the call.
C4_ParamsNotMutated ==
    Called => callerParams = given

\* json.loads applied to a textual metadata value
DecodedMetadata(metadata) ==
    IF metadata.k = "str" THEN JsonLoads(metadata.v[1]) ELSE metadata

\* C5 as stated: whenever a metadata param is provided, whatever its value,
\* every document returned has its metadata equal to the decoded value.
C5_AnyMetadataOverwrites ==
    (InAdapter("documentloaders") /\ "metadata" \in DOMAIN given
        /\ outcome.kind = "return"
        /\ (given["metadata"].k = "str" => JsonValid(given["metadata"].v[1]))) =>
        \A i \in 1..Len(outcome.docs) :
            outcome.docs[i].metadata = DecodedMetadata(given["metadata"])

\* C5 (amended): whenever a metadata param that is not empty (not "", not {})
\* is provided and the loader returns, every document returned has its
\* metadata equal to the decoded value; when metadata is absent or empty the
\* documents come back as the loader gave them.
C5_NonEmptyMetadataOverwrites ==
    (InAdapter("documentloaders") /\ outcome.kind = "return") =>
        LET loaded == trace[CHOOSE i \in EventsOf("load") : TRUE].docs
            provided == /\ "metadata" \in DOMAIN given
                        /\ given["metadata"] \notin {Str(""), V("dict", <<>>)}
        IN  /\ Len(outcome.docs) = Len(loaded)
            /\ provided =>
                  \A i \in 1..Len(outcome.docs) :
                      /\ outcome.docs[i].metadata = DecodedMetadata(given["metadata"])
                      /\ outcome.docs[i].page_content = loaded[i].page_content
            /\ ~provided => outcome.docs = loaded

\* two documents loaded with metadata of their own, both overwritten by the
\* decoded JSON text
C5_Witness ==
    /\ InAdapter("documentloaders")
    /\ outcome.kind = "return"
    /\ "metadata" \in DOMAIN given
    /\ given["metadata"] = Str(JsonSourceX)
    /\ Len(outcome.docs) = 2
    /\ \A i \in 1..2 :
          /\ trace[CHOOSE j \in EventsOf("load") : TRUE].docs[i].metadata
                 = V("dict", <<"source=a.txt">>)
          /\ outcome.docs[i].metadata = V("dict", <<"source=x">>)

\* C6: in the text-splitter adapter, params without `documents` always end in
\* the missing-documents error, with the splitter never constructed and
\* split_documents never called; with `documents` present that error is
\* never raised.
C6_MissingDocuments ==
    InAdapter("textsplitters") =>
        /\ "documents" \notin DOMAIN given =>
              /\ outcome = Raised(MissingDocuments)
              /\ EventsOf("construct") = {}
              /\ EventsOf("split_documents") = {}
        /\ "documents" \in DOMAIN given => outcome.error # MissingDocuments

\* the adapter was entered without `documents` and raised
C6_Witness ==
    /\ InAdapter("textsplitters")
    /\ "documents" \notin DOMAIN given
    /\ "chunk_size" \in DOMAIN given
    /\ outcome.kind = "raise"
    /\ outcome.error = MissingDocuments

\* C7: in load_agent_executor, for allowed_tools a single tool, a list or a
\* set, with llm_chain given, the names handed to the agent and the tools
\* handed to the executor have the same length and names[i] is the name of
\* tools[i], in the order of the input; a single tool gives a tool list of
\* length 1.
C7_NamesMatchTools ==
    (InAdapter("agents") /\ "llm_chain" \in DOMAIN given
        /\ "allowed_tools" \in DOMAIN given
        /\ given["allowed_tools"].k \in {"tool", "list", "set"}) =>
        /\ Len(trace) >= 2
        /\ trace[2].ev = "construct"
        /\ LET names == trace[2].kwargs["allowed_tools"].v
               input == given["allowed_tools"].v
           IN  /\ Len(names) = Len(input)
               /\ \A i \in 1..Len(names) : names[i] = ToolName(input[i])
               /\ \A e \in EventsOf("from_agent_and_tools") :
                     /\ trace[e].kwargs["tools"].v = input
                     /\ Len(trace[e].kwargs["tools"].v) = Len(names)
                     /\ (given["allowed_tools"].k = "tool" =>
                            /\ trace[e].kwargs["tools"].k = "list"
                            /\ Len(trace[e].kwargs["tools"].v) = 1)

\* an executor built from a list of two tools with different names
C7_Witness ==
    /\ InAdapter("agents")
    /\ outcome.kind = "return"
    /\ "allowed_tools" \in DOMAIN given
    /\ given["allowed_tools"] = V("list", <<"t2", "t1">>)
    /\ EventsOf("from_agent_and_tools") = {3}
    /\ trace[2].kwargs["allowed_tools"].v = <<"Calculator", "Search">>

\* C9: in the embedding adapter the constructor is attempted at most twice;
\* neither attempt is passed `model` or `headers`; a second attempt happens
\* only after the first raised a validation error, and is passed exactly the
\* remaining params whose names are fields of the class; any other failure
\* propagates with no further attempt.
C9_EmbeddingRetry ==
    InAdapter("embeddings") =>
        LET attempts == EventsOf("construct")
            remaining == [x \in DOMAIN given \ {"model", "headers"} |->
                              IF x = "model_kwargs" /\ given[x].k = "str"
                              THEN JsonLoads(given[x].v[1]) ELSE given[x]]
        IN  /\ Cardinality(attempts) \in {1, 2}
            /\ \A a \in attempts :
                  {"model", "headers"} \cap DOMAIN trace[a].kwargs = {}
            /\ trace[2].ev = "construct"
            /\ trace[2].kwargs = remaining
            /\ Cardinality(attempts) = 2 =>
                  /\ Len(trace) = 4
                  /\ trace[3].ev = "raised"
                  /\ trace[3].arg = Str("ValidationError")
                  /\ trace[4].ev = "construct"
                  /\ trace[4].kwargs =
                        [x \in DOMAIN remaining \cap ClassFields(op.node_type) |->
                             remaining[x]]
            /\ \A i \in EventsOf("raised") :
                  trace[i].arg # Str("ValidationError") =>
                      /\ i = Len(trace)
                      /\ outcome = Raised(trace[i].arg.v[1])

\* a second attempt that left out a param that is no field of the class;
\* `model`, a field of the class, was given and passed to neither attempt
C9_Witness ==
    /\ InAdapter("embeddings")
    /\ Cardinality(EventsOf("construct")) = 2
    /\ {"model", "user_agent", "openai_api_key"} \subseteq DOMAIN given
    /\ "model" \in ClassFields(op.node_type)
    /\ "user_agent" \in DOMAIN trace[2].kwargs
    /\ "user_agent" \notin DOMAIN trace[4].kwargs
    /\ "openai_api_key" \in DOMAIN trace[4].kwargs

\* C10 as stated: for "PythonFunctionTool" the constructor's arguments hold
\* `func`, the compiled callable, and do not hold `code`; for "JsonSpec" they
\* hold `dict_` and do not hold `path`.
C10_CodeAndPathReplaced ==
    InAdapter("tools") =>
        \A c \in EventsOf("construct") :
            /\ op.node_type = "PythonFunctionTool" =>
                  /\ "func" \in DOMAIN trace[c].kwargs
                  /\ "code" \notin DOMAIN trace[c].kwargs
            /\ op.node_type = "JsonSpec" =>
                  /\ "dict_" \in DOMAIN trace[c].kwargs
                  /\ "path" \notin DOMAIN trace[c].kwargs

\* C10 (amended): for "PythonFunctionTool" the constructor's arguments hold
\* `func`, the callable compiled from `code`, and still hold `code` itself
\* whenever the params had it; for "JsonSpec" they hold `dict_`, loaded from
\* `path`, and do not hold `path`.
C10_FuncAddedPathReplaced ==
    InAdapter("tools") =>
        \A c \in EventsOf("construct") :
            /\ op.node_type = "PythonFunctionTool" =>
                  /\ "func" \in DOMAIN trace[c].kwargs
                  /\ trace[c].kwargs["func"].k = "callable"
                  /\ trace[c - 1].ev = "get_function"
                  /\ "code" \in DOMAIN given =>
                        /\ trace[c - 1].arg = given["code"]
                        /\ "code" \in DOMAIN trace[c].kwargs
                        /\ trace[c].kwargs["code"] = given["code"]
                  /\ "code" \notin DOMAIN given => "code" \notin DOMAIN trace[c].kwargs
            /\ op.node_type = "JsonSpec" =>
                  /\ "dict_" \in DOMAIN trace[c].kwargs
                  /\ "path" \notin DOMAIN trace[c].kwargs
                  /\ trace[c - 1].ev = "load_file_into_dict"
                  /\ trace[c - 1].arg = given["path"]

\* a PythonFunctionTool constructed from params that held `code`
C10_Witness ==
    /\ InAdapter("tools")
    /\ op.node_type = "PythonFunctionTool"
    /\ outcome.kind = "return"
    /\ "code" \in DOMAIN given
    /\ given["code"].k = "str"
    /\ EventsOf("construct") = {3}
    /\ {"func", "code"} \subseteq DOMAIN trace[3].kwargs

====
